---- MODULE Spec2Model ----
(***************************************************************************)
(* A model of ATSim, an instruction-set simulator for an 8-bit AVR core     *)
(* (ATtiny85 sized): the machine state, the unified data-memory view, the  *)
(* status-register packing, the stack accessors, the peripheral hook       *)
(* dispatchers, the loader and the run loop.                               *)
(***************************************************************************)
EXTENDS Integers, Sequences, FiniteSets, TLC

(***************************************************************************)
(* Program constants (src/src/config.h, src/src/machine.h).                *)
(***************************************************************************)
FLASH_SIZE == 8192
SRAM_SIZE == 512
GP_REGISTERS == 32
IO_REGISTERS == 64
PROG_MEM_SIZE_BYTES == FLASH_SIZE
PROG_MEM_SIZE == PROG_MEM_SIZE_BYTES \div 2
DATA_MEM_SIZE == SRAM_SIZE + IO_REGISTERS + GP_REGISTERS
PC_MASK == PROG_MEM_SIZE - 1

\* The address bounds the accessors compare against: the regions follow one
\* another in the order GPR, I/O, SRAM.
GP_REGISTERS_END_ADDRESS == GP_REGISTERS
IO_REGISTERS_START_ADDRESS == GP_REGISTERS
IO_REGISTERS_END_ADDRESS == GP_REGISTERS + IO_REGISTERS
SRAM_START_ADDRESS == GP_REGISTERS + IO_REGISTERS
SRAM_END_ADDRESS == GP_REGISTERS + IO_REGISTERS + SRAM_SIZE

\* Indices of SPL and SPH in the IO array, and the address the accessors
\* compare against to find the status register.
SP_L == 61
SP_H == 62
SREG_ADDRESS == 63

\* The preprocessor chain of machine.h: the smallest 2^k - 1, k in 8..16,
\* with DATA_MEM_SIZE < 2^k + 1.
SP_MASK ==
    IF DATA_MEM_SIZE < 256 + 1 THEN 256 - 1
    ELSE IF DATA_MEM_SIZE < 512 + 1 THEN 512 - 1
    ELSE IF DATA_MEM_SIZE < 1024 + 1 THEN 1024 - 1
    ELSE IF DATA_MEM_SIZE < 2048 + 1 THEN 2048 - 1
    ELSE IF DATA_MEM_SIZE < 4096 + 1 THEN 4096 - 1
    ELSE IF DATA_MEM_SIZE < 8192 + 1 THEN 8192 - 1
    ELSE IF DATA_MEM_SIZE < 16384 + 1 THEN 16384 - 1
    ELSE IF DATA_MEM_SIZE < 32768 + 1 THEN 32768 - 1
    ELSE 65536 - 1

\* StatusRegister enum.
SREG_C == 0
SREG_Z == 1
SREG_N == 2
SREG_V == 3
SREG_S == 4
SREG_H == 5
SREG_T == 6
SREG_I == 7

(***************************************************************************)
(* Integer helpers: C's fixed-width arithmetic.                            *)
(***************************************************************************)
RECURSIVE Pow2(_)
Pow2(n) == IF n = 0 THEN 1 ELSE 2 * Pow2(n - 1)

\* Bit i of v.
Bit(v, i) == (v \div Pow2(i)) % 2

\* Conversion of an int to uint8_t / uint16_t (Address16, Mem16).
ToU8(x) == x % 256
ToU16(x) == x % 65536

\* x & SP_MASK and x & PC_MASK for a two's-complement int x (both masks are 2^k - 1).
AndSPMask(x) == x % (SP_MASK + 1)
AndPCMask(x) == x % (PC_MASK + 1)

\* Get16(h, l)
Get16(h, l) == ToU16((h * 256) + l)

(***************************************************************************)
(* The state.  The fields of Machine, the two statics of USI_ShiftChar and *)
(* the character stream, then what the model records about the calls made. *)
(***************************************************************************)
VARIABLES
    SREG,             \* bool SREG[8]
    PC,               \* Reg16 PC
    R,                \* Reg8 R[GP_REGISTERS]
    IO,               \* Reg8 IO[IO_REGISTERS]
    SRAM,             \* Mem8 SRAM[SRAM_SIZE]
    FLASH,            \* Mem16 FLASH[FLASH_SIZE / 2]
    SKIP,             \* bool SKIP
    output_counter,   \* static uint8_t output_counter of USI_ShiftChar
    character_buffer, \* static uint8_t character_buffer of USI_ShiftChar
    stdout,           \* the characters written with putc
    held,             \* USIDR as the first shift of the current character found it, -1 once USIDR is written after that
    trace,            \* the hook calls and register accesses of the last call
    last,             \* the last accessor call: name, arguments, result, SP and flags before it
    prev,             \* the accessor call before the last one
    nops,             \* the number of accessor calls made so far
    calls,            \* the calls of a run of stack accessors, each with the registers and flags before it
    pcl,              \* where main is: "main", "load", "while", the four steps of a cycle, "halted", "exit"
    exit_code,        \* what main returned, -1 until it has
    read_bytes,       \* size_t read_bytes of load_memory_from_file, -1 before fread
    image_bytes,      \* uint8_t bytes[] of load_memory_from_file: what fread stored in it
    last_pc,          \* Reg16 last_pc of run_until_halt_loop
    opcode,           \* const Mem16 opcode of machine_cycle
    cycle_pc,         \* PC when the current call of machine_cycle began
    cycles,           \* calls of machine_cycle so far, counted up to MaxCycles
    stalls,           \* calls of machine_cycle that returned with PC as it was, up to MaxCycles
    post_ticks        \* calls of PeripheralPostTick so far, counted up to MaxCycles

machVars == <<SREG, PC, R, IO, SRAM, FLASH, SKIP>>
usiVars == <<output_counter, character_buffer, stdout, held>>
histVars == <<trace, last, prev, nops, calls>>
runVars == <<pcl, exit_code, read_bytes, image_bytes, last_pc, opcode, cycle_pc, cycles, stalls,
            post_ticks>>
vars == <<SREG, PC, R, IO, SRAM, FLASH, SKIP, output_counter, character_buffer,
          stdout, held, trace, last, prev, nops, calls, pcl, exit_code, read_bytes, image_bytes,
          last_pc, opcode, cycle_pc, cycles, stalls, post_ticks>>

\* The machine as one value, for the accessors to act on; trace starts empty
\* at each call.
Mach ==
    [SREG |-> SREG, PC |-> PC, R |-> R, IO |-> IO, SRAM |-> SRAM,
     FLASH |-> FLASH, SKIP |-> SKIP, trace |-> <<>>]

(***************************************************************************)
(* Status register packing (machine_accessors.h).                          *)
(***************************************************************************)
\* PackSREG with the weights of Z and C exchanged.
PackSREG_SwapZC(m) ==
    (IF m.SREG[SREG_I] THEN 128 ELSE 0)
    + (IF m.SREG[SREG_T] THEN 64 ELSE 0)
    + (IF m.SREG[SREG_H] THEN 32 ELSE 0)
    + (IF m.SREG[SREG_S] THEN 16 ELSE 0)
    + (IF m.SREG[SREG_V] THEN 8 ELSE 0)
    + (IF m.SREG[SREG_N] THEN 4 ELSE 0)
    + (IF m.SREG[SREG_Z] THEN 1 ELSE 0)
    + (IF m.SREG[SREG_C] THEN 2 ELSE 0)

PackSREG(m) ==
    (IF m.SREG[SREG_I] THEN 128 ELSE 0)
    + (IF m.SREG[SREG_T] THEN 64 ELSE 0)
    + (IF m.SREG[SREG_H] THEN 32 ELSE 0)
    + (IF m.SREG[SREG_S] THEN 16 ELSE 0)
    + (IF m.SREG[SREG_V] THEN 8 ELSE 0)
    + (IF m.SREG[SREG_N] THEN 4 ELSE 0)
    + (IF m.SREG[SREG_Z] THEN 2 ELSE 0)
    + (IF m.SREG[SREG_C] THEN 1 ELSE 0)

\* UnpackSREG with the masks of T and H exchanged.
UnpackSREG_SwapTH(m, b) ==
    [m EXCEPT !.SREG =
        [i \in 0..7 |->
            CASE i = SREG_I -> (b \div 128) % 2 # 0
              [] i = SREG_T -> (b \div 32) % 2 # 0
              [] i = SREG_H -> (b \div 64) % 2 # 0
              [] i = SREG_S -> (b \div 16) % 2 # 0
              [] i = SREG_V -> (b \div 8) % 2 # 0
              [] i = SREG_N -> (b \div 4) % 2 # 0
              [] i = SREG_Z -> (b \div 2) % 2 # 0
              [] i = SREG_C -> b % 2 # 0]]

UnpackSREG(m, b) ==
    [m EXCEPT !.SREG =
        [i \in 0..7 |->
            CASE i = SREG_I -> (b \div 128) % 2 # 0
              [] i = SREG_T -> (b \div 64) % 2 # 0
              [] i = SREG_H -> (b \div 32) % 2 # 0
              [] i = SREG_S -> (b \div 16) % 2 # 0
              [] i = SREG_V -> (b \div 8) % 2 # 0
              [] i = SREG_N -> (b \div 4) % 2 # 0
              [] i = SREG_Z -> (b \div 2) % 2 # 0
              [] i = SREG_C -> b % 2 # 0]]

ClearStatusFlag(m, index) == [m EXCEPT !.SREG[index % 8] = FALSE]

SetStatusFlag(m, index) == [m EXCEPT !.SREG[index % 8] = TRUE]

GetStatusFlag(m, index) == m.SREG[index % 8]

(***************************************************************************)
(* Peripheral hooks (peripherals.h, peripherals/usi.c), built with         *)
(* PERIPHERAL_USI.  The handlers change nothing of the machine; the model  *)
(* records each call in m.trace.                                           *)
(***************************************************************************)
Called(m, name, address) ==
    [m EXCEPT !.trace = Append(@, [call |-> name, addr |-> address])]

USI_PreSetDataMem(m, address) == Called(m, "USI_PreSetDataMem", address)

USI_PostSetDataMem(m, address) == Called(m, "USI_PostSetDataMem", address)

USI_PreGetDataMem(m, address) == Called(m, "USI_PreGetDataMem", address)

USI_PostGetDataMem(m, address) == Called(m, "USI_PostGetDataMem", address)

PreSetDataMem(m, address) ==
    LET m1 == Called(m, "PreSetDataMem", address)
    IN  IF address <= 16 \/ address >= 13
        THEN USI_PostGetDataMem(m1, address)
        ELSE m1

PostSetDataMem(m, address) ==
    LET m1 == Called(m, "PostSetDataMem", address)
    IN  IF address <= 16 \/ address >= 13
        THEN USI_PostGetDataMem(m1, address)
        ELSE m1

PreGetDataMem(m, address) ==
    LET m1 == Called(m, "PreGetDataMem", address)
    IN  IF address <= 16 \/ address >= 13
        THEN USI_PostGetDataMem(m1, address)
        ELSE m1

PostGetDataMem(m, address) ==
    LET m1 == Called(m, "PostGetDataMem", address)
    IN  IF address <= 16 \/ address >= 13
        THEN USI_PostGetDataMem(m1, address)
        ELSE m1

(***************************************************************************)
(* The unified data-memory view (machine_accessors.h).                     *)
(***************************************************************************)
GetRealIndexSRAM(address) == (address - SRAM_START_ADDRESS) % SRAM_SIZE
GetRealIndexIOReg(address) == (address - IO_REGISTERS_START_ADDRESS) % IO_REGISTERS
GetRealIndexGPReg(address) == address % GP_REGISTERS

\* GetDataMem with the status register read at 0x5F while SetDataMem still
\* unpacks at 0x3F.
GetDataMem_SregAt5F(m, a) ==
    LET b == ToU16(a) % DATA_MEM_SIZE
    IN  IF b < GP_REGISTERS_END_ADDRESS
        THEN [m |-> m, r |-> m.R[GetRealIndexGPReg(b)]]
        ELSE IF b < IO_REGISTERS_END_ADDRESS
        THEN IF b = 95
             THEN [m |-> m, r |-> PackSREG(m)]
             ELSE LET m1 == PreGetDataMem(m, b)
                      r == m1.IO[GetRealIndexIOReg(b)]
                      m2 == Called(m1, "read IO", b)
                  IN  [m |-> PostGetDataMem(m2, b), r |-> r]
        ELSE IF b < SRAM_END_ADDRESS
        THEN [m |-> m, r |-> m.SRAM[GetRealIndexSRAM(b)]]
        ELSE [m |-> m, r |-> 0]

\* GetDataMem without the reduction of the address modulo DATA_MEM_SIZE.
GetDataMem_NoWrap(m, a) ==
    LET b == ToU16(a)
    IN  IF b < GP_REGISTERS_END_ADDRESS
        THEN [m |-> m, r |-> m.R[GetRealIndexGPReg(b)]]
        ELSE IF b < IO_REGISTERS_END_ADDRESS
        THEN IF b = SREG_ADDRESS
             THEN [m |-> m, r |-> PackSREG(m)]
             ELSE LET m1 == PreGetDataMem(m, b)
                      r == m1.IO[GetRealIndexIOReg(b)]
                      m2 == Called(m1, "read IO", b)
                  IN  [m |-> PostGetDataMem(m2, b), r |-> r]
        ELSE IF b < SRAM_END_ADDRESS
        THEN [m |-> m, r |-> m.SRAM[GetRealIndexSRAM(b)]]
        ELSE [m |-> m, r |-> 0]

\* GetDataMem: the machine after the call (the hooks have run) and the byte
\* returned.
GetDataMem(m, a) ==
    LET b == ToU16(a) % DATA_MEM_SIZE
    IN  IF b < GP_REGISTERS_END_ADDRESS
        THEN [m |-> m, r |-> m.R[GetRealIndexGPReg(b)]]
        ELSE IF b < IO_REGISTERS_END_ADDRESS
        THEN IF b = SREG_ADDRESS
             THEN [m |-> m, r |-> PackSREG(m)]
             ELSE LET m1 == PreGetDataMem(m, b)
                      r == m1.IO[GetRealIndexIOReg(b)]
                      m2 == Called(m1, "read IO", b)
                  IN  [m |-> PostGetDataMem(m2, b), r |-> r]
        ELSE IF b < SRAM_END_ADDRESS
        THEN [m |-> m, r |-> m.SRAM[GetRealIndexSRAM(b)]]
        ELSE [m |-> m, r |-> 0]

\* SetDataMem without the call of PostSetDataMem.
SetDataMem_NoPostHook(m, a, v) ==
    LET b == ToU16(a) % DATA_MEM_SIZE
    IN  IF b < GP_REGISTERS_END_ADDRESS
        THEN [m EXCEPT !.R[GetRealIndexGPReg(b)] = v]
        ELSE IF b < IO_REGISTERS_END_ADDRESS
        THEN LET m0 == IF b = SREG_ADDRESS THEN UnpackSREG(m, v) ELSE m
                 m1 == PreSetDataMem(m0, b)
             IN  Called([m1 EXCEPT !.IO[GetRealIndexIOReg(b)] = v], "write IO", b)
        ELSE IF b < SRAM_END_ADDRESS
        THEN [m EXCEPT !.SRAM[GetRealIndexSRAM(b)] = v]
        ELSE m

SetDataMem(m, a, v) ==
    LET b == ToU16(a) % DATA_MEM_SIZE
    IN  IF b < GP_REGISTERS_END_ADDRESS
        THEN [m EXCEPT !.R[GetRealIndexGPReg(b)] = v]
        ELSE IF b < IO_REGISTERS_END_ADDRESS
        THEN LET m0 == IF b = SREG_ADDRESS THEN UnpackSREG(m, v) ELSE m
                 m1 == PreSetDataMem(m0, b)
                 m2 == Called([m1 EXCEPT !.IO[GetRealIndexIOReg(b)] = v], "write IO", b)
             IN  PostSetDataMem(m2, b)
        ELSE IF b < SRAM_END_ADDRESS
        THEN [m EXCEPT !.SRAM[GetRealIndexSRAM(b)] = v]
        ELSE m

(***************************************************************************)
(* Program counter and stack pointer (machine.h), the stack accessors      *)
(* (machine_accessors.h).                                                  *)
(***************************************************************************)
\* SetPC without the mask: the value as a Reg16 holds it.
SetPC_NoMask(m, a) == [m EXCEPT !.PC = ToU16(a)]

SetPC(m, a) == [m EXCEPT !.PC = AndPCMask(a)]

GetPC(m) == m.PC

\* SetSP without the mask.
SetSP_NoMask(m, a) ==
    LET x == ToU16(a)
    IN  [m EXCEPT !.IO[SP_H] = (x \div 256) % 256, !.IO[SP_L] = x % 256]

\* Set16(m->SP_H, m->SP_L, (a) & SP_MASK)
SetSP(m, a) ==
    LET x == AndSPMask(a)
    IN  [m EXCEPT !.IO[SP_H] = (x \div 256) % 256, !.IO[SP_L] = x % 256]

GetSP(m) == AndSPMask(Get16(m.IO[SP_H], m.IO[SP_L]))

\* PushStack16 in the order of the AVR hardware: high byte at SP, low at SP - 1.
PushStack16_HighFirst(m, val) ==
    LET m1 == SetDataMem(m, GetSP(m), (val \div 256) % 256)
        m2 == SetDataMem(m1, GetSP(m1) - 1, val % 256)
    IN  SetSP(m2, GetSP(m2) - 2)

PushStack16(m, val) ==
    LET m1 == SetDataMem(m, GetSP(m), val % 256)
        m2 == SetDataMem(m1, GetSP(m1) - 1, (val \div 256) % 256)
    IN  SetSP(m2, GetSP(m2) - 2)

\* PopStack16: the machine after the call and the word returned.  The two
\* reads are unsequenced in C; neither changes what the other returns.
PopStack16(m) ==
    LET m1 == SetSP(m, GetSP(m) + 2)
        lo == GetDataMem(m1, GetSP(m1))
        hi == GetDataMem(lo.m, GetSP(lo.m) - 1)
    IN  [m |-> hi.m, r |-> ToU16(lo.r + (hi.r * 256))]

\* PushStack8 leaving SP where it was.
PushStack8_KeepSP(m, val) == SetDataMem(m, GetSP(m), val)

PushStack8(m, val) ==
    LET m1 == SetDataMem(m, GetSP(m), val)
    IN  SetSP(m1, GetSP(m1) - 1)

\* PopStack8 reading before it increments SP.
PopStack8_ReadFirst(m) ==
    LET g == GetDataMem(m, GetSP(m))
    IN  [m |-> SetSP(g.m, GetSP(g.m) + 1), r |-> g.r]

PopStack8(m) ==
    LET m1 == SetSP(m, GetSP(m) + 1)
    IN  GetDataMem(m1, GetSP(m1))

(***************************************************************************)
(* Program memory (machine_accessors.h) and the loader (machine.c).        *)
(***************************************************************************)
\* GetProgMemByte taking the high byte of the word at even byte addresses.
GetProgMemByte_HighFirst(m, a) ==
    (m.FLASH[(ToU16(a) \div 2) % PROG_MEM_SIZE] \div Pow2(8 * (1 - (ToU16(a) % 2)))) % 256

GetProgMemByte(m, a) ==
    (m.FLASH[(ToU16(a) \div 2) % PROG_MEM_SIZE] \div Pow2(8 * (ToU16(a) % 2))) % 256

GetProgMem(m, a) == m.FLASH[ToU16(a) % PROG_MEM_SIZE]

SetProgMem(m, a, v) == [m EXCEPT !.FLASH[ToU16(a) % PROG_MEM_SIZE] = v]

\* The loop of load_memory taking byte 2i for the high byte of word i.
RECURSIVE load_memory_from_BigEndian(_, _, _, _)
load_memory_from_BigEndian(m, bytes, max, word_index) ==
    IF word_index < max \div 2
    THEN load_memory_from_BigEndian(
             SetProgMem(m, word_index,
                        Get16(bytes[(word_index * 2) + 1], bytes[(word_index * 2 + 1) + 1])),
             bytes, max, word_index + 1)
    ELSE m

\* The loop of load_memory from word_index on.  bytes is a sequence: the C
\* element bytes[k] is bytes[k + 1] here.
RECURSIVE load_memory_from(_, _, _, _)
load_memory_from(m, bytes, max, word_index) ==
    IF word_index < max \div 2
    THEN load_memory_from(
             SetProgMem(m, word_index,
                        Get16(bytes[(word_index * 2 + 1) + 1], bytes[(word_index * 2) + 1])),
             bytes, max, word_index + 1)
    ELSE m

\* load_memory clearing PC after the loop.
load_memory_ResetPC(m, bytes, max) == SetPC(load_memory_from(m, bytes, max, 0), 0)

load_memory(m, bytes, max) == load_memory_from(m, bytes, max, 0)

\* fread(bytes, 1, PROG_MEM_SIZE_BYTES, fp): the bytes read from a file.
Fread(file) ==
    IF Len(file) <= PROG_MEM_SIZE_BYTES THEN file ELSE SubSeq(file, 1, PROG_MEM_SIZE_BYTES)

(***************************************************************************)
(* The USI character output (peripherals/usi.c), built with                *)
(* USI_CHARACTER_OUTPUT.  u holds the machine, the two statics and the     *)
(* characters written.                                                     *)
(***************************************************************************)
REG_USIBR == 16
REG_USIDR == 15
REG_USISR == 14
REG_USICR == 13
BIT_USICR_USICS1 == 3
BIT_USICR_USICS0 == 2
BIT_USICR_USICLK == 1
USICS_MASK == Pow2(BIT_USICR_USICS1) + Pow2(BIT_USICR_USICS0)
USICS_SHIFT == BIT_USICR_USICS0

\* USI_ShiftChar shifting also under USICS[1:0] = 10.
USI_ShiftChar_ExternalClock(u) ==
    LET m == u.m
        \* USICS_MASK covers the two adjacent bits from USICS_SHIFT up.
        usics_value == (m.IO[REG_USICR] \div Pow2(USICS_SHIFT)) % ((USICS_MASK \div Pow2(USICS_SHIFT)) + 1)
        usiclk_value == Bit(m.IO[REG_USICR], BIT_USICR_USICLK) # 0
    IN  IF usics_value = 1 \/ usics_value = 2 \/ (usics_value = 0 /\ usiclk_value)
        THEN LET cb == ToU8(u.character_buffer * 2) + Bit(m.IO[REG_USIDR], 7)
                 m1 == [m EXCEPT !.IO[REG_USIDR] = ToU8(@ * 2)]
                 oc == ToU8(u.output_counter + 1)
                 full == oc >= 8
                 m2 == IF full THEN [m1 EXCEPT !.IO[REG_USIBR] = cb] ELSE m1
                 \* ^= (1 << BIT_USICR_USICLK) of a register whose USICLK bit was set
                 m3 == IF usiclk_value
                       THEN [m2 EXCEPT !.IO[REG_USICR] = @ - Pow2(BIT_USICR_USICLK)]
                       ELSE m2
             IN  [m |-> m3,
                  output_counter |-> IF full THEN 0 ELSE oc,
                  character_buffer |-> IF full THEN 0 ELSE cb,
                  stdout |-> IF full THEN Append(u.stdout, cb) ELSE u.stdout]
        ELSE u

\* USI_ShiftChar with a character complete after seven shifts.
USI_ShiftChar_SevenShifts(u) ==
    LET m == u.m
        \* USICS_MASK covers the two adjacent bits from USICS_SHIFT up.
        usics_value == (m.IO[REG_USICR] \div Pow2(USICS_SHIFT)) % ((USICS_MASK \div Pow2(USICS_SHIFT)) + 1)
        usiclk_value == Bit(m.IO[REG_USICR], BIT_USICR_USICLK) # 0
    IN  IF usics_value = 1 \/ (usics_value = 0 /\ usiclk_value)
        THEN LET cb == ToU8(u.character_buffer * 2) + Bit(m.IO[REG_USIDR], 7)
                 m1 == [m EXCEPT !.IO[REG_USIDR] = ToU8(@ * 2)]
                 oc == ToU8(u.output_counter + 1)
                 full == oc >= 7
                 m2 == IF full THEN [m1 EXCEPT !.IO[REG_USIBR] = cb] ELSE m1
                 \* ^= (1 << BIT_USICR_USICLK) of a register whose USICLK bit was set
                 m3 == IF usiclk_value
                       THEN [m2 EXCEPT !.IO[REG_USICR] = @ - Pow2(BIT_USICR_USICLK)]
                       ELSE m2
             IN  [m |-> m3,
                  output_counter |-> IF full THEN 0 ELSE oc,
                  character_buffer |-> IF full THEN 0 ELSE cb,
                  stdout |-> IF full THEN Append(u.stdout, cb) ELSE u.stdout]
        ELSE u

\* USI_ShiftChar leaving USICLK as it found it.
USI_ShiftChar_KeepStrobe(u) ==
    LET m == u.m
        \* USICS_MASK covers the two adjacent bits from USICS_SHIFT up.
        usics_value == (m.IO[REG_USICR] \div Pow2(USICS_SHIFT)) % ((USICS_MASK \div Pow2(USICS_SHIFT)) + 1)
        usiclk_value == Bit(m.IO[REG_USICR], BIT_USICR_USICLK) # 0
    IN  IF usics_value = 1 \/ (usics_value = 0 /\ usiclk_value)
        THEN LET cb == ToU8(u.character_buffer * 2) + Bit(m.IO[REG_USIDR], 7)
                 m1 == [m EXCEPT !.IO[REG_USIDR] = ToU8(@ * 2)]
                 oc == ToU8(u.output_counter + 1)
                 full == oc >= 8
                 m2 == IF full THEN [m1 EXCEPT !.IO[REG_USIBR] = cb] ELSE m1
                 \* ^= (1 << BIT_USICR_USICLK) of a register whose USICLK bit was set
                 m3 == m2
             IN  [m |-> m3,
                  output_counter |-> IF full THEN 0 ELSE oc,
                  character_buffer |-> IF full THEN 0 ELSE cb,
                  stdout |-> IF full THEN Append(u.stdout, cb) ELSE u.stdout]
        ELSE u

USI_ShiftChar(u) ==
    LET m == u.m
        \* USICS_MASK covers the two adjacent bits from USICS_SHIFT up.
        usics_value == (m.IO[REG_USICR] \div Pow2(USICS_SHIFT)) % ((USICS_MASK \div Pow2(USICS_SHIFT)) + 1)
        usiclk_value == Bit(m.IO[REG_USICR], BIT_USICR_USICLK) # 0
    IN  IF usics_value = 1 \/ (usics_value = 0 /\ usiclk_value)
        THEN LET cb == ToU8(u.character_buffer * 2) + Bit(m.IO[REG_USIDR], 7)
                 m1 == [m EXCEPT !.IO[REG_USIDR] = ToU8(@ * 2)]
                 oc == ToU8(u.output_counter + 1)
                 full == oc >= 8
                 m2 == IF full THEN [m1 EXCEPT !.IO[REG_USIBR] = cb] ELSE m1
                 \* ^= (1 << BIT_USICR_USICLK) of a register whose USICLK bit was set
                 m3 == IF usiclk_value
                       THEN [m2 EXCEPT !.IO[REG_USICR] = @ - Pow2(BIT_USICR_USICLK)]
                       ELSE m2
             IN  [m |-> m3,
                  output_counter |-> IF full THEN 0 ELSE oc,
                  character_buffer |-> IF full THEN 0 ELSE cb,
                  stdout |-> IF full THEN Append(u.stdout, cb) ELSE u.stdout]
        ELSE u

USI_PostTick(u) == USI_ShiftChar(u)

PeripheralPreTick(u) == u

PeripheralPostTick(u) == USI_PostTick(u)

(***************************************************************************)
(* Fetch (machine.c) and decode-and-execute.  instructions.c is not among  *)
(* the sources: what an instruction does to PC and SKIP is taken from the  *)
(* design document: a skipped instruction and every instruction but RJMP   *)
(* move PC to the next word (the two-word instructions and the branches    *)
(* are not modelled), RJMP adds its signed 12-bit displacement to PC + 1.  *)
(***************************************************************************)
fetch_instruction(m) == GetProgMem(m, m.PC)

IsRJMP(op) == op \div 4096 = 12

Displacement12(op) ==
    LET k == op % 4096
    IN  IF k >= 2048 THEN k - 4096 ELSE k

decode_and_execute_instruction(m, op) ==
    IF m.SKIP
    THEN [SetPC(m, m.PC + 1) EXCEPT !.SKIP = FALSE]
    ELSE IF IsRJMP(op)
    THEN SetPC(m, m.PC + Displacement12(op) + 1)
    ELSE SetPC(m, m.PC + 1)

(***************************************************************************)
(* Bounds and the inputs the actions draw from.                            *)
(***************************************************************************)
\* Accessor calls made in one behaviour of SpecData, SpecSREG, SpecStack and
\* SpecMem.
MaxDataOps == 2
MaxSregOps == 3
MaxStackOps == 3
MaxLifoOps == 7
MaxMemOps == 2

\* Calls of PeripheralPostTick and stores of the program in one behaviour of
\* SpecUSI: a character takes eight shifts, the ninth begins the next one.
MaxTicks == 9
MaxUsiWrites == 2

\* What the program stores, as <<data address, byte>>: in USICR (0x2D) the
\* clock sources 00, 00 with USICLK, 01, 01 with USICLK and 10; in USIDR
\* (0x2F, and the same cell past DATA_MEM_SIZE) two characters.
UsiWrites == {<<45, 0>>, <<45, 2>>, <<45, 4>>, <<45, 6>>, <<45, 8>>, <<47, 165>>, <<655, 90>>}

\* What a Machine on main's stack may hold before anything is stored in it:
\* every byte of it 0, or every byte of it 0xff.
GarbageBytes == {0, 255}

\* Address16 arguments: the ends of each region, the status-register
\* address 0x3F of the accessors, SPL, 0x5F, and addresses that wrap.
DataAddrs == {0, 31, 32, 63, 93, 95, 96, 607, 703, 65535}

\* Address16 arguments of the calls of SpecMem: the two sides of each region
\* boundary, DATA_MEM_SIZE and addresses past it.
MemDataAddrs == {31, 32, 95, 96, 607, 608, 703, 65535}

\* Word addresses given to GetProgMem and SetProgMem: the first and the last
\* word, PROG_MEM_SIZE and the last Address16.
ProgAddrs == {0, 4095, 4096, 65535}

\* Byte addresses given to GetProgMemByte: the two bytes of the first and of
\* the last word, and addresses past the last word.
ProgByteAddrs == {0, 1, 8190, 8191, 8192, 65535}

\* Arguments of SetPC: below 0, the ends of program memory, and past them.
PCValues == {-4096, -2, -1, 0, 4095, 4096, 8191, 65535, 65536}

\* Mem8 arguments.
Bytes == {0, 165, 255}

\* Mem16 arguments.
Words == {255, 4660, 65535}

\* Status flag indices.
FlagIndices == 0..7

\* Bytes given to UnpackSREG: none, each flag alone, a mixture, all.
SregBytes == {0, 1, 2, 4, 8, 16, 32, 64, 128, 165, 255}

\* Arguments of SetSP: in the GPR, I/O and SRAM regions, at SPL and SPH, the
\* top of data memory, and values past DATA_MEM_SIZE and past SP_MASK.
SPValues == {0, 1, 63, 94, 95, 96, 607, 608, 701, 1023, 1631}
LifoSPValues == {96, 98, 607}

(***************************************************************************)
(* Init: `Machine m;` in main is not initialised (atsim.c); the statics of *)
(* USI_ShiftChar start at 0.                                               *)
(***************************************************************************)
NoCall ==
    [op |-> "none", a |-> 0, v |-> 0, ret |-> 0, sp0 |-> 0,
     sreg0 |-> [i \in 0..7 |-> FALSE]]

Init ==
    \E g \in GarbageBytes :
        /\ SREG = [i \in 0..7 |-> g # 0]
        /\ PC = Get16(g, g)
        /\ R = [i \in 0..(GP_REGISTERS - 1) |-> g]
        /\ IO = [i \in 0..(IO_REGISTERS - 1) |-> g]
        /\ SRAM = [i \in 0..(SRAM_SIZE - 1) |-> g]
        /\ FLASH = [i \in 0..(PROG_MEM_SIZE - 1) |-> Get16(g, g)]
        /\ SKIP = (g # 0)
        /\ output_counter = 0
        /\ character_buffer = 0
        /\ stdout = <<>>
        /\ held = -1
        /\ trace = <<>>
        /\ last = NoCall
        /\ prev = NoCall
        /\ nops = 0
        /\ calls = <<>>
        /\ pcl = "main"
        /\ exit_code = -1
        /\ read_bytes = -1
        /\ image_bytes = <<>>
        /\ last_pc = 0
        /\ opcode = 0
        /\ cycle_pc = 0
        /\ cycles = 0
        /\ stalls = 0
        /\ post_ticks = 0

(***************************************************************************)
(* One action per accessor call.  Each records the call in last.           *)
(***************************************************************************)
Call(op, a, v, ret) ==
    [op |-> op, a |-> a, v |-> v, ret |-> ret, sp0 |-> GetSP(Mach), sreg0 |-> SREG]

\* The machine becomes mm and the call is recorded in last.
Record(mm, call) ==
    /\ SREG' = mm.SREG
    /\ PC' = mm.PC
    /\ R' = mm.R
    /\ IO' = mm.IO
    /\ SRAM' = mm.SRAM
    /\ FLASH' = mm.FLASH
    /\ SKIP' = mm.SKIP
    /\ trace' = mm.trace
    /\ prev' = last
    /\ last' = call
    /\ nops' = nops + 1
    /\ UNCHANGED usiVars
    /\ UNCHANGED runVars

Commit(mm, call) == Record(mm, call) /\ UNCHANGED calls

DoSetDataMem(a, v) == Commit(SetDataMem(Mach, a, v), Call("SetDataMem", a, v, 0))

DoGetDataMem(a) ==
    LET g == GetDataMem(Mach, a)
    IN  Commit(g.m, Call("GetDataMem", a, 0, g.r))

DoSetStatusFlag(i) == Commit(SetStatusFlag(Mach, i), Call("SetStatusFlag", i, 0, 0))

DoClearStatusFlag(i) == Commit(ClearStatusFlag(Mach, i), Call("ClearStatusFlag", i, 0, 0))

DoGetStatusFlag(i) ==
    Commit(Mach, Call("GetStatusFlag", i, 0, IF GetStatusFlag(Mach, i) THEN 1 ELSE 0))

DoPackSREG == Commit(Mach, Call("PackSREG", 0, 0, PackSREG(Mach)))

DoUnpackSREG(b) == Commit(UnpackSREG(Mach, b), Call("UnpackSREG", 0, b, 0))

DoSetSP(a) == Commit(SetSP(Mach, a), Call("SetSP", a, 0, 0))

DoPushStack8(v) == Commit(PushStack8(Mach, v), Call("PushStack8", 0, v, 0))

DoPopStack8 ==
    LET p == PopStack8(Mach)
    IN  Commit(p.m, Call("PopStack8", 0, 0, p.r))

DoPushStack16(v) == Commit(PushStack16(Mach, v), Call("PushStack16", 0, v, 0))

DoPopStack16 ==
    LET p == PopStack16(Mach)
    IN  Commit(p.m, Call("PopStack16", 0, 0, p.r))

DoSetProgMem(a, v) == Commit(SetProgMem(Mach, a, v), Call("SetProgMem", a, v, 0))

DoGetProgMem(a) == Commit(Mach, Call("GetProgMem", a, 0, GetProgMem(Mach, a)))

DoGetProgMemByte(a) == Commit(Mach, Call("GetProgMemByte", a, 0, GetProgMemByte(Mach, a)))

(***************************************************************************)
(* Specifications.  SpecData: the data-memory view and the flag setters.   *)
(* SpecSREG: the status register.  SpecStack: the stack accessors.         *)
(* SpecMem: the data-memory and the program-memory accessors.              *)
(***************************************************************************)
NextData ==
    /\ nops < MaxDataOps
    /\ \/ \E a \in DataAddrs, v \in Bytes : DoSetDataMem(a, v)
       \/ \E a \in DataAddrs : DoGetDataMem(a)
       \/ \E i \in FlagIndices : DoSetStatusFlag(i)
       \/ \E i \in FlagIndices : DoClearStatusFlag(i)

SpecData == Init /\ [][NextData]_vars

NextSREG ==
    /\ nops < MaxSregOps
    /\ \/ \E b \in SregBytes : DoUnpackSREG(b)
       \/ DoPackSREG
       \/ \E i \in FlagIndices : DoSetStatusFlag(i)
       \/ \E i \in FlagIndices : DoClearStatusFlag(i)
       \/ \E i \in FlagIndices : DoGetStatusFlag(i)

SpecSREG == Init /\ [][NextSREG]_vars

NextStack ==
    /\ nops < MaxStackOps
    /\ \/ \E a \in SPValues : DoSetSP(a)
       \/ \E v \in Bytes : DoPushStack8(v)
       \/ DoPopStack8
       \/ \E v \in Words : DoPushStack16(v)
       \/ DoPopStack16

SpecStack == Init /\ [][NextStack]_vars

NextMem ==
    /\ nops < MaxMemOps
    /\ \/ \E a \in MemDataAddrs, v \in Bytes : DoSetDataMem(a, v)
       \/ \E a \in MemDataAddrs : DoGetDataMem(a)
       \/ \E a \in ProgAddrs, v \in Words : DoSetProgMem(a, v)
       \/ \E a \in ProgAddrs : DoGetProgMem(a)
       \/ \E a \in ProgByteAddrs : DoGetProgMemByte(a)

SpecMem == Init /\ [][NextMem]_vars

(***************************************************************************)
(* SpecLifo: the program sets SP first, then pushes and pops bytes.  Every *)
(* call is kept in calls with R, IO and SREG as they were before it.       *)
(***************************************************************************)
Logged(call) == [call |-> call, R |-> R, IO |-> IO, SREG |-> SREG]

LogSetSP(a) ==
    /\ calls = <<>>
    /\ Record(SetSP(Mach, a), Call("SetSP", a, 0, 0))
    /\ calls' = Append(calls, Logged(Call("SetSP", a, 0, 0)))

LogPushStack8(v) ==
    /\ calls # <<>>
    /\ Record(PushStack8(Mach, v), Call("PushStack8", 0, v, 0))
    /\ calls' = Append(calls, Logged(Call("PushStack8", 0, v, 0)))

LogPopStack8 ==
    LET p == PopStack8(Mach)
    IN  /\ calls # <<>>
        /\ Record(p.m, Call("PopStack8", 0, 0, p.r))
        /\ calls' = Append(calls, Logged(Call("PopStack8", 0, 0, p.r)))

NextLifo ==
    /\ Len(calls) < MaxLifoOps
    /\ \/ \E a \in LifoSPValues : LogSetSP(a)
       \/ \E v \in Bytes : LogPushStack8(v)
       \/ LogPopStack8

SpecLifo == Init /\ [][NextLifo]_vars

(***************************************************************************)
(* main (atsim.c) and the run loop (machine.c), one action per step.       *)
(***************************************************************************)
\* Calls of machine_cycle counted.
MaxCycles == 3

\* argc
ArgCounts == {1, 2, 3}

\* Image files: rjmp .-2; nop, rjmp .-2; nop, rjmp .-4; rjmp .-4, which
\* leaves word 0 backwards; an empty file; an odd number of bytes.
Files ==
    {<<255, 207>>, <<0, 0, 255, 207>>, <<0, 0, 254, 207>>, <<254, 207>>, <<>>,
     <<255, 207, 18>>}

Count(n) == IF n < MaxCycles THEN n + 1 ELSE n

\* The machine and the USI statics as one value.
WithUSI ==
    [m |-> Mach, output_counter |-> output_counter,
     character_buffer |-> character_buffer, stdout |-> stdout]

SetMach(mm) ==
    /\ SREG' = mm.SREG
    /\ PC' = mm.PC
    /\ R' = mm.R
    /\ IO' = mm.IO
    /\ SRAM' = mm.SRAM
    /\ FLASH' = mm.FLASH
    /\ SKIP' = mm.SKIP

\* The machine and the USI statics become those of u.
SetUSI(u) ==
    /\ SetMach(u.m)
    /\ output_counter' = u.output_counter
    /\ character_buffer' = u.character_buffer
    /\ stdout' = u.stdout

\* Whether PeripheralPostTick, called now, shifts: every shift changes
\* output_counter.
TickShifts == PeripheralPostTick(WithUSI).output_counter # output_counter

\* held after a call of PeripheralPostTick: the first shift of a character
\* records the USIDR it found.
HeldAfterTick == IF TickShifts /\ output_counter = 0 THEN IO[REG_USIDR] ELSE held

\* main: the argument check.  last records argc.
MainArgs(argc) ==
    /\ pcl = "main"
    /\ IF argc # 2
       THEN pcl' = "exit" /\ exit_code' = 1
       ELSE pcl' = "load" /\ UNCHANGED exit_code
    /\ prev' = last
    /\ last' = Call("main", argc, 0, 0)
    /\ UNCHANGED <<machVars, usiVars, trace, nops, calls, read_bytes, image_bytes, last_pc, opcode,
                   cycle_pc, cycles, stalls, post_ticks>>

\* LoadFromFile going on to the run when fopen has failed.
LoadFromFile_IgnoreFailure(opens, file) ==
    /\ pcl = "load"
    /\ IF ~opens
       THEN /\ pcl' = "loaded"
            /\ UNCHANGED <<machVars, read_bytes, image_bytes, exit_code>>
       ELSE /\ SetMach(load_memory(Mach, Fread(file), Len(Fread(file))))
            /\ image_bytes' = Fread(file)
            /\ read_bytes' = Len(Fread(file))
            /\ pcl' = "loaded"
            /\ UNCHANGED exit_code
    /\ prev' = last
    /\ last' = Call("load_memory_from_file", 0, 0, IF opens THEN 1 ELSE 0)
    /\ UNCHANGED <<usiVars, trace, nops, calls, last_pc, opcode, cycle_pc, cycles, stalls, post_ticks>>

\* load_memory_from_file, and main's return when it fails.  last records
\* what load_memory_from_file returned.
LoadFromFile(opens, file) ==
    /\ pcl = "load"
    /\ IF ~opens
       THEN /\ pcl' = "exit"
            /\ exit_code' = 1
            /\ UNCHANGED <<machVars, read_bytes, image_bytes>>
       ELSE /\ SetMach(load_memory(Mach, Fread(file), Len(Fread(file))))
            /\ image_bytes' = Fread(file)
            /\ read_bytes' = Len(Fread(file))
            /\ pcl' = "loaded"
            /\ UNCHANGED exit_code
    /\ prev' = last
    /\ last' = Call("load_memory_from_file", 0, 0, IF opens THEN 1 ELSE 0)
    /\ UNCHANGED <<usiVars, trace, nops, calls, last_pc, opcode, cycle_pc, cycles, stalls, post_ticks>>

\* MainStartRun with last_pc starting at 0 instead of 0xffff.
MainStartRun_LastPcZero ==
    /\ pcl = "loaded"
    /\ PC' = 0
    /\ SKIP' = FALSE
    /\ last_pc' = 0
    /\ pcl' = "while"
    /\ UNCHANGED <<SREG, R, IO, SRAM, FLASH, usiVars, histVars, exit_code, read_bytes, image_bytes,
                   opcode, cycle_pc, cycles, stalls, post_ticks>>

\* main: m.PC = 0; m.SKIP = false; and the entry of run_until_halt_loop.
MainStartRun ==
    /\ pcl = "loaded"
    /\ PC' = 0
    /\ SKIP' = FALSE
    /\ last_pc' = 65535
    /\ pcl' = "while"
    /\ UNCHANGED <<SREG, R, IO, SRAM, FLASH, usiVars, histVars, exit_code, read_bytes, image_bytes,
                   opcode, cycle_pc, cycles, stalls, post_ticks>>

\* while (last_pc != m->PC) { last_pc = m->PC; machine_cycle(m) ...
LoopTest ==
    /\ pcl = "while"
    /\ IF last_pc # PC
       THEN /\ last_pc' = PC
            /\ cycle_pc' = PC
            /\ cycles' = Count(cycles)
            /\ pcl' = "pre_tick"
       ELSE /\ pcl' = "halted"
            /\ UNCHANGED <<last_pc, cycle_pc, cycles>>
    /\ UNCHANGED <<machVars, usiVars, histVars, exit_code, read_bytes, image_bytes, opcode, stalls, post_ticks>>

PreTick ==
    /\ pcl = "pre_tick"
    /\ SetUSI(PeripheralPreTick(WithUSI))
    /\ UNCHANGED held
    /\ pcl' = "fetch"
    /\ UNCHANGED <<histVars, exit_code, read_bytes, image_bytes, last_pc, opcode, cycle_pc, cycles,
                   stalls, post_ticks>>

\* Fetch going on to the post-tick, with no decode-and-execute.
Fetch_NoExecute ==
    /\ pcl = "fetch"
    /\ opcode' = fetch_instruction(Mach)
    /\ pcl' = "post_tick"
    /\ UNCHANGED <<machVars, usiVars, histVars, exit_code, read_bytes, image_bytes, last_pc, cycle_pc,
                   cycles, stalls, post_ticks>>

Fetch ==
    /\ pcl = "fetch"
    /\ opcode' = fetch_instruction(Mach)
    /\ pcl' = "execute"
    /\ UNCHANGED <<machVars, usiVars, histVars, exit_code, read_bytes, image_bytes, last_pc, cycle_pc,
                   cycles, stalls, post_ticks>>

Execute ==
    /\ pcl = "execute"
    /\ SetMach(decode_and_execute_instruction(Mach, opcode))
    /\ pcl' = "post_tick"
    /\ UNCHANGED <<usiVars, histVars, exit_code, read_bytes, image_bytes, last_pc, opcode, cycle_pc,
                   cycles, stalls, post_ticks>>

\* PeripheralPostTick, and machine_cycle returns.
PostTick ==
    /\ pcl = "post_tick"
    /\ SetUSI(PeripheralPostTick(WithUSI))
    /\ held' = HeldAfterTick
    /\ post_ticks' = Count(post_ticks)
    /\ stalls' = IF PC = cycle_pc THEN Count(stalls) ELSE stalls
    /\ pcl' = "while"
    /\ UNCHANGED <<histVars, exit_code, read_bytes, image_bytes, last_pc, opcode, cycle_pc, cycles>>

\* main after run_until_halt_loop: the dumps change nothing of the machine
\* (the hooks dump_stack's reads call do nothing); return 0.
MainReturn ==
    /\ pcl = "halted"
    /\ pcl' = "exit"
    /\ exit_code' = 0
    /\ UNCHANGED <<machVars, usiVars, histVars, read_bytes, image_bytes, last_pc, opcode, cycle_pc,
                   cycles, stalls, post_ticks>>

NextRun ==
    \/ \E argc \in ArgCounts : MainArgs(argc)
    \/ \E opens \in BOOLEAN, file \in Files : LoadFromFile(opens, file)
    \/ MainStartRun
    \/ LoopTest
    \/ PreTick
    \/ Fetch
    \/ Execute
    \/ PostTick
    \/ MainReturn

SpecRun == Init /\ [][NextRun]_vars

\* The process runs on: no step of main waits for anything.
SpecRunFair == SpecRun /\ WF_vars(NextRun)

(***************************************************************************)
(* SpecUSI: the program stores in the USI registers between the cycles,    *)
(* each cycle ends with PeripheralPostTick (machine.c).                    *)
(***************************************************************************)
\* A store of the program in data memory.
DoUsiWrite(a, v) ==
    /\ nops - post_ticks < MaxUsiWrites
    /\ LET mm == SetDataMem(Mach, a, v)
       IN  /\ SetMach(mm)
           /\ trace' = mm.trace
    /\ held' = IF ToU16(a) % DATA_MEM_SIZE = IO_REGISTERS_START_ADDRESS + REG_USIDR
               THEN -1
               ELSE held
    /\ prev' = last
    /\ last' = Call("SetDataMem", a, v, 0)
    /\ nops' = nops + 1
    /\ UNCHANGED <<output_counter, character_buffer, stdout, calls, pcl, exit_code,
                   read_bytes, image_bytes, last_pc, opcode, cycle_pc, cycles, stalls,
                   post_ticks>>

\* The end of a cycle.
DoPostTick ==
    /\ post_ticks < MaxTicks
    /\ SetUSI(PeripheralPostTick(WithUSI))
    /\ held' = HeldAfterTick
    /\ trace' = <<>>
    /\ prev' = last
    /\ last' = Call("PeripheralPostTick", 0, 0, 0)
    /\ nops' = nops + 1
    /\ post_ticks' = post_ticks + 1
    /\ UNCHANGED <<calls, pcl, exit_code, read_bytes, image_bytes, last_pc, opcode, cycle_pc, cycles,
                   stalls>>

NextUSI ==
    \/ \E w \in UsiWrites : DoUsiWrite(w[1], w[2])
    \/ DoPostTick

SpecUSI == Init /\ [][NextUSI]_vars

(***************************************************************************)
(* Helpers of the properties.                                              *)
(***************************************************************************)
\* The data-memory cell an Address16 argument is wrapped to.
Wrapped(a) == ToU16(a) % DATA_MEM_SIZE

\* What a read of data address a returns in the current state.
Cell(a) == GetDataMem(Mach, a).r

InIORegion(b) == IO_REGISTERS_START_ADDRESS <= b /\ b < IO_REGISTERS_END_ADDRESS

\* The data addresses of SPL and SPH.
SPCells == {IO_REGISTERS_START_ADDRESS + SP_L, IO_REGISTERS_START_ADDRESS + SP_H}

\* The stack pointer as stored, without GetSP's mask.
StoredSP == Get16(IO[SP_H], IO[SP_L])

\* The byte PackSREG returns for the flag array f.
PackOf(f) == PackSREG([SREG |-> f])

\* Whether the calls named occur in trace in this order, each for address b.
InOrder(names, b) ==
    \E idx \in [1..Len(names) -> 1..Len(trace)] :
        /\ \A k \in 1..Len(names) :
              trace[idx[k]].call = names[k] /\ trace[idx[k]].addr = b
        /\ \A k \in 1..(Len(names) - 1) : idx[k] < idx[k + 1]

(***************************************************************************)
(* C1.  The status register is mapped at data address 0x5F: after any      *)
(* sequence of SetStatusFlag / ClearStatusFlag / SetDataMem calls a read   *)
(* of 0x5F returns the byte packed from the flags, and a write of v to     *)
(* 0x5F sets every flag SREG[i] to bit i of v.                             *)
(***************************************************************************)
C1_StatusRegisterAt0x5F ==
    /\ last.op # "none" => Cell(95) = PackSREG(Mach)
    /\ (last.op = "SetDataMem" /\ Wrapped(last.a) = 95)
          => \A i \in 0..7 : SREG[i] = (Bit(last.v, i) = 1)

(***************************************************************************)
(* C3.  Data-memory round trip: for every address a in [0, DATA_MEM_SIZE)  *)
(* and byte v, SetDataMem(a, v) immediately followed by GetDataMem(a)      *)
(* returns v, also at 0x5F.                                                *)
(***************************************************************************)
C3_DataRoundTrip ==
    (/\ last.op = "GetDataMem"
     /\ prev.op = "SetDataMem"
     /\ last.a = prev.a
     /\ last.a \in 0..(DATA_MEM_SIZE - 1))
        => last.ret = prev.v

C3_Witness ==
    /\ last.op = "GetDataMem"
    /\ prev.op = "SetDataMem"
    /\ last.a = 95
    /\ prev.a = 95
    /\ prev.v = 165
    /\ last.ret = 165

(***************************************************************************)
(* C6.  Hooks around every I/O access: every GetDataMem and SetDataMem     *)
(* whose wrapped address is in the I/O region [32, 96) calls the pre-hook  *)
(* before and the post-hook after the access, and an access to a GPR or    *)
(* SRAM address calls no hook.                                             *)
(***************************************************************************)
HooksAround(op, b) ==
    IF op = "GetDataMem"
    THEN InOrder(<<"PreGetDataMem", "read IO", "PostGetDataMem">>, b)
    ELSE InOrder(<<"PreSetDataMem", "write IO", "PostSetDataMem">>, b)

C2_PushPopRoundTrip ==
    (last.op = "PopStack8" /\ prev.op = "PushStack8")
        => (last.ret = prev.v /\ GetSP(Mach) = prev.sp0)

\* As amended: for every stack pointer that does not address SPL or SPH.
C2_PushPopRoundTripOffSP ==
    (/\ last.op = "PopStack8"
     /\ prev.op = "PushStack8"
     /\ Wrapped(prev.sp0) \notin SPCells)
        => (last.ret = prev.v /\ GetSP(Mach) = prev.sp0)

\* A round trip through a stack pointer past DATA_MEM_SIZE, which wraps to R[0].
C2_Witness ==
    /\ last.op = "PopStack8"
    /\ prev.op = "PushStack8"
    /\ prev.sp0 = 608
    /\ prev.v = 165
    /\ last.ret = 165
    /\ GetSP(Mach) = 608

(***************************************************************************)
(* C5.  The stack pointer stays inside data memory: after any sequence of  *)
(* SetSP, PushStack8, PushStack16, PopStack8 and PopStack16 calls,         *)
(* GetSP(m) < DATA_MEM_SIZE.                                               *)
(***************************************************************************)
C5_SPInsideDataMemory == last.op # "none" => GetSP(Mach) < DATA_MEM_SIZE

\* As amended: the stack pointer, as stored in SPH:SPL and as GetSP returns
\* it, is at most SP_MASK.
C5_SPWithinMask ==
    last.op # "none" => (StoredSP <= SP_MASK /\ GetSP(Mach) = StoredSP)

C5_Witness ==
    /\ last.op = "PushStack8"
    /\ GetSP(Mach) >= DATA_MEM_SIZE
    /\ GetSP(Mach) <= SP_MASK

(***************************************************************************)
(* C7.  16-bit stack layout and round trip: PushStack16(v) with stack      *)
(* pointer s stores the low byte of v at data address s and the high byte  *)
(* at s - 1 and sets SP to s - 2; PopStack16() immediately afterwards      *)
(* returns v and restores SP to s.  (Data addresses as the accessors wrap  *)
(* them, SP modulo SP_MASK + 1.)                                           *)
(***************************************************************************)
Layout16(s, v) ==
    /\ Cell(s) = v % 256
    /\ Cell(s - 1) = (v \div 256) % 256
    /\ GetSP(Mach) = AndSPMask(s - 2)

C7_Push16LayoutRoundTrip ==
    /\ last.op = "PushStack16" => Layout16(last.sp0, last.v)
    /\ (last.op = "PopStack16" /\ prev.op = "PushStack16")
          => (last.ret = prev.v /\ GetSP(Mach) = prev.sp0)

\* As amended: when neither s nor s - 1 addresses SPL or SPH.
OffSP16(s) == Wrapped(s) \notin SPCells /\ Wrapped(s - 1) \notin SPCells

C7_Push16LayoutRoundTripOffSP ==
    /\ (last.op = "PushStack16" /\ OffSP16(last.sp0))
          => Layout16(last.sp0, last.v)
    /\ (last.op = "PopStack16" /\ prev.op = "PushStack16" /\ OffSP16(prev.sp0))
          => (last.ret = prev.v /\ GetSP(Mach) = prev.sp0)

C7_Witness ==
    /\ last.op = "PopStack16"
    /\ prev.op = "PushStack16"
    /\ prev.sp0 = 607
    /\ prev.v = 4660
    /\ last.ret = 4660
    /\ SRAM[GetRealIndexSRAM(607)] = 52
    /\ SRAM[GetRealIndexSRAM(606)] = 18
    /\ GetSP(Mach) = 607

(***************************************************************************)
(* C8.  SREG pack/unpack round trip: for every byte b, UnpackSREG(b)       *)
(* followed by PackSREG() returns b; for every assignment f of the eight   *)
(* flags, PackSREG() followed by UnpackSREG of the result leaves the flags *)
(* equal to f.                                                             *)
(***************************************************************************)
C8_PackUnpackRoundTrip ==
    /\ (last.op = "PackSREG" /\ prev.op = "UnpackSREG") => last.ret = prev.v
    /\ (last.op = "UnpackSREG" /\ prev.op = "PackSREG" /\ last.v = prev.ret)
          => SREG = prev.sreg0
    /\ UnpackSREG(Mach, PackSREG(Mach)).SREG = SREG
    /\ nops = 0 => \A b \in 0..255 : PackSREG(UnpackSREG(Mach, b)) = b

C8_Witness ==
    /\ last.op = "UnpackSREG"
    /\ prev.op = "PackSREG"
    /\ prev.ret = 165
    /\ last.v = 165
    /\ SREG[SREG_I] /\ ~SREG[SREG_T] /\ SREG[SREG_H] /\ ~SREG[SREG_S]
    /\ ~SREG[SREG_V] /\ SREG[SREG_N] /\ ~SREG[SREG_Z] /\ SREG[SREG_C]

(***************************************************************************)
(* C9.  SREG packing order: in the byte PackSREG returns, bit 7 is I,      *)
(* bit 6 T, bit 5 H, bit 4 S, bit 3 V, bit 2 N, bit 1 Z and bit 0 C, and   *)
(* SetStatusFlag(i) / ClearStatusFlag(i) change exactly bit i of it.       *)
(***************************************************************************)
C9_PackingOrder ==
    /\ last.op = "PackSREG" =>
          /\ (Bit(last.ret, 7) = 1) = SREG[SREG_I]
          /\ (Bit(last.ret, 6) = 1) = SREG[SREG_T]
          /\ (Bit(last.ret, 5) = 1) = SREG[SREG_H]
          /\ (Bit(last.ret, 4) = 1) = SREG[SREG_S]
          /\ (Bit(last.ret, 3) = 1) = SREG[SREG_V]
          /\ (Bit(last.ret, 2) = 1) = SREG[SREG_N]
          /\ (Bit(last.ret, 1) = 1) = SREG[SREG_Z]
          /\ (Bit(last.ret, 0) = 1) = SREG[SREG_C]
          /\ last.ret \in 0..255
    /\ last.op = "SetStatusFlag" =>
          \A j \in 0..7 :
              Bit(PackSREG(Mach), j) = IF j = last.a THEN 1 ELSE Bit(PackOf(last.sreg0), j)
    /\ last.op = "ClearStatusFlag" =>
          \A j \in 0..7 :
              Bit(PackSREG(Mach), j) = IF j = last.a THEN 0 ELSE Bit(PackOf(last.sreg0), j)

C9_Witness ==
    /\ last.op = "PackSREG"
    /\ prev.op = "SetStatusFlag"
    /\ prev.a = SREG_T
    /\ ~prev.sreg0[SREG_T]
    /\ last.ret = 64

(***************************************************************************)
(* C4.  Halt by PC fixed point: run_until_halt_loop always executes at     *)
(* least one cycle, returns immediately after the first cycle whose PC     *)
(* after the cycle equals PC before it, and has no other exit; for a       *)
(* self-jump at the start PC it stops within two cycles, and a program in  *)
(* which every cycle changes PC never halts.                               *)
(***************************************************************************)
InCycle == pcl \in {"pre_tick", "fetch", "execute", "post_tick"}

\* run_until_halt_loop has returned.
Returned == pcl = "halted" \/ (pcl = "exit" /\ exit_code = 0)

\* The loaded program is rjmp .-2 at word 0, where main starts it.
SelfJumpAtStart == read_bytes >= 2 /\ FLASH[0] = 53247

C4_HaltInv ==
    /\ Returned => (cycles >= 1 /\ stalls = 1 /\ PC = cycle_pc)
    /\ InCycle => stalls = 0
    /\ pcl = "while" => stalls <= 1
    /\ (Returned /\ SelfJumpAtStart) => cycles <= 2
    /\ (pcl = "while" /\ SelfJumpAtStart) => cycles <= 1

C4_HaltByPCFixedPoint ==
    /\ []C4_HaltInv
    /\ [][(pcl = "while" /\ stalls = 1) => pcl' = "halted"]_vars
    /\ (pcl = "while" /\ SelfJumpAtStart) ~> Returned

C4_Witness ==
    /\ pcl = "halted"
    /\ SelfJumpAtStart
    /\ cycles = 1
    /\ stalls = 1
    /\ PC = 0

(***************************************************************************)
(* C11.  Loader word assembly: after load_memory(bytes, n), for every word *)
(* index i < floor(n / 2), FLASH[i] equals bytes[2i] + 256 * bytes[2i+1]:  *)
(* byte 2i is the low byte and byte 2i+1 the high byte.  (image_bytes is a  *)
(* sequence: the C element bytes[k] is image_bytes[k + 1].)                *)
(***************************************************************************)
C11_LoaderWordAssembly ==
    read_bytes >= 0 =>
        \A i \in 0..((read_bytes \div 2) - 1) :
            FLASH[i] = image_bytes[(2 * i) + 1] + (256 * image_bytes[(2 * i + 1) + 1])

C11_Witness ==
    /\ pcl = "loaded"
    /\ image_bytes = <<0, 0, 254, 207>>
    /\ read_bytes = 4
    /\ FLASH[0] = 0
    /\ FLASH[1] = 53246

(***************************************************************************)
(* C12.  LPM byte-order law: for every program word index i in             *)
(* [0, PROG_MEM_SIZE) holding word w, GetProgMemByte(2i) equals w & 0xFF   *)
(* and GetProgMemByte(2i+1) equals (w >> 8) & 0xFF.                        *)
(***************************************************************************)
C12_LpmByteOrder ==
    /\ \A i \in {0, 1, PROG_MEM_SIZE - 2, PROG_MEM_SIZE - 1} :
          /\ GetProgMemByte(Mach, 2 * i) = FLASH[i] % 256
          /\ GetProgMemByte(Mach, (2 * i) + 1) = (FLASH[i] \div 256) % 256
    /\ (last.op = "GetProgMemByte" /\ last.a \div 2 < PROG_MEM_SIZE) =>
          last.ret = IF last.a % 2 = 0
                     THEN FLASH[last.a \div 2] % 256
                     ELSE (FLASH[last.a \div 2] \div 256) % 256

C12_Witness ==
    /\ prev.op = "SetProgMem"
    /\ prev.a = 4095
    /\ prev.v = 4660
    /\ last.op = "GetProgMemByte"
    /\ last.a = 8191
    /\ last.ret = 18

(***************************************************************************)
(* C19.  All addresses wrap and none is out of range: for every 16-bit     *)
(* address a, GetDataMem(a) and SetDataMem(a, v) act on the same cell as   *)
(* at address a mod DATA_MEM_SIZE, GetProgMem(a) / SetProgMem(a, v) act on *)
(* FLASH[a mod PROG_MEM_SIZE], and every wrapped data address falls in     *)
(* exactly one of the GPR, I/O or SRAM regions, so that no read returns    *)
(* the fall-through 0 and no write is dropped.                             *)
(***************************************************************************)
InGPR(b) == 0 <= b /\ b < GP_REGISTERS
InIO(b) == GP_REGISTERS <= b /\ b < GP_REGISTERS + IO_REGISTERS
InSRAM(b) == GP_REGISTERS + IO_REGISTERS <= b /\ b < DATA_MEM_SIZE

\* Cell b of data memory, laid out as GPR, I/O, SRAM, in the arrays r, io, sram.
RegionCell(r, io, sram, b) ==
    IF InGPR(b) THEN r[b]
    ELSE IF InIO(b) THEN io[b - GP_REGISTERS]
    ELSE sram[b - (GP_REGISTERS + IO_REGISTERS)]

C19_OneRegion ==
    \A a \in 0..65535 :
        LET b == a % DATA_MEM_SIZE
        IN  \/ InGPR(b) /\ ~InIO(b) /\ ~InSRAM(b)
            \/ ~InGPR(b) /\ InIO(b) /\ ~InSRAM(b)
            \/ ~InGPR(b) /\ ~InIO(b) /\ InSRAM(b)

\* Cell b of data memory, and no other cell, becomes v.
CellStored(b, v) ==
    /\ R' = IF InGPR(b) THEN [R EXCEPT ![b] = v] ELSE R
    /\ IO' = IF InIO(b) THEN [IO EXCEPT ![b - GP_REGISTERS] = v] ELSE IO
    /\ SRAM' = IF InSRAM(b) THEN [SRAM EXCEPT ![b - (GP_REGISTERS + IO_REGISTERS)] = v] ELSE SRAM
    /\ RegionCell(R', IO', SRAM', b) = v

C19_Step ==
    /\ last'.op = "SetDataMem" =>
          /\ CellStored(last'.a % DATA_MEM_SIZE, last'.v)
          /\ FLASH' = FLASH
    /\ (last'.op = "GetDataMem" /\ last'.a % DATA_MEM_SIZE # SREG_ADDRESS) =>
          /\ last'.ret = RegionCell(R, IO, SRAM, last'.a % DATA_MEM_SIZE)
          /\ UNCHANGED <<R, IO, SRAM, FLASH>>
    /\ last'.op = "SetProgMem" =>
          /\ FLASH' = [FLASH EXCEPT ![last'.a % PROG_MEM_SIZE] = last'.v]
          /\ UNCHANGED <<R, IO, SRAM>>
    /\ last'.op = "GetProgMem" =>
          /\ last'.ret = FLASH[last'.a % PROG_MEM_SIZE]
          /\ UNCHANGED <<R, IO, SRAM, FLASH>>

C19_AllAddressesWrap ==
    /\ [](nops = 0 => C19_OneRegion)
    /\ [][C19_Step]_vars

\* A write through a program address and one through a data address, both
\* past the end of their memory.
C19_Witness ==
    /\ prev.op = "SetProgMem"
    /\ prev.a = 65535
    /\ prev.v = 4660
    /\ FLASH[PROG_MEM_SIZE - 1] = 4660
    /\ last.op = "SetDataMem"
    /\ last.a = 703
    /\ last.v = 165
    /\ IO[SREG_ADDRESS] = 165

(***************************************************************************)
(* C13.  USI shift condition: a post-tick shifts USIDR left by one bit,    *)
(* appends the old USIDR bit 7 as the new low bit of the accumulator and   *)
(* counts the shift (the eighth one emits the accumulator and resets both) *)
(* if and only if USICS[1:0] = 01, or USICS[1:0] = 00 and USICLK = 1; in   *)
(* every other case the post-tick leaves USIDR, USIBR, USICR, the          *)
(* accumulator and the counter unchanged and emits nothing.                *)
(***************************************************************************)
\* The step is a call of PeripheralPostTick.
IsTick == last'.op = "PeripheralPostTick"

\* USICS[1:0], bits 3 and 2 of USICR, and USICLK, bit 1.
USICS == (IO[REG_USICR] \div 4) % 4
USICLK == (IO[REG_USICR] \div 2) % 2

ShiftCondition == USICS = 1 \/ (USICS = 0 /\ USICLK = 1)

\* The accumulator with the bit 7 of USIDR appended.
Appended == ((character_buffer * 2) % 256) + (IO[REG_USIDR] \div 128)

\* What a shift does to USIDR, the accumulator, the counter and the output.
ShiftDone ==
    /\ IO'[REG_USIDR] = (IO[REG_USIDR] * 2) % 256
    /\ IF output_counter = 7
       THEN /\ output_counter' = 0
            /\ character_buffer' = 0
            /\ stdout' = Append(stdout, Appended)
       ELSE /\ output_counter' = output_counter + 1
            /\ character_buffer' = Appended
            /\ stdout' = stdout

NothingDone ==
    /\ IO' = IO
    /\ character_buffer' = character_buffer
    /\ output_counter' = output_counter
    /\ stdout' = stdout

C13_ShiftCondition ==
    [][IsTick => IF ShiftCondition THEN ShiftDone ELSE NothingDone]_vars

\* A tick under USICS[1:0] = 01 that shifted USIDR = 0xA5 once.
C13_Witness ==
    /\ last.op = "PeripheralPostTick"
    /\ prev.op = "SetDataMem"
    /\ USICS = 1
    /\ IO[REG_USIDR] = 74
    /\ character_buffer = 1
    /\ output_counter = 1

(***************************************************************************)
(* C14.  USI byte emission: a character is emitted exactly on every 8th    *)
(* shift since the last emission (the counter is always in 0..7 between    *)
(* ticks); if USIDR held byte b at the first of the eight shifts (the      *)
(* counter was 0) and USIDR is not written before the eighth, the eighth   *)
(* shift emits b to the output stream, stores b in USIBR, resets the       *)
(* counter and the accumulator to 0 and leaves USIDR equal to 0.           *)
(***************************************************************************)
C14_Step ==
    /\ (stdout' # stdout) <=> (IsTick /\ TickShifts /\ output_counter = 7)
    /\ (stdout' # stdout) => Len(stdout') = Len(stdout) + 1
    /\ (IsTick /\ TickShifts /\ output_counter = 7 /\ held # -1) =>
          /\ stdout' = Append(stdout, held)
          /\ IO'[REG_USIBR] = held
          /\ output_counter' = 0
          /\ character_buffer' = 0
          /\ IO'[REG_USIDR] = 0

C14_ByteEmission ==
    /\ [](output_counter \in 0..7)
    /\ [][C14_Step]_vars

C14_Witness ==
    /\ last.op = "PeripheralPostTick"
    /\ held = 165
    /\ stdout = <<165>>
    /\ IO[REG_USIBR] = 165
    /\ IO[REG_USIDR] = 0
    /\ output_counter = 0
    /\ character_buffer = 0

(***************************************************************************)
(* C15.  USI strobe consumption: in mode USICS[1:0] = 00, a post-tick that *)
(* finds USICLK = 1 performs one shift and leaves USICLK = 0, so each time *)
(* the program sets USICLK exactly one shift occurs, and no further shift  *)
(* occurs on later ticks until USICLK is set again.                        *)
(***************************************************************************)
C15_Step ==
    /\ (IsTick /\ USICS = 0 /\ USICLK = 1) =>
          /\ ShiftDone
          /\ IO'[REG_USICR] = IO[REG_USICR] - 2
    /\ (IsTick /\ USICS = 0 /\ USICLK = 0) => NothingDone
    /\ (IsTick /\ USICLK = 0) => (IO'[REG_USICR] \div 2) % 2 = 0

C15_StrobeConsumed == [][C15_Step]_vars

\* USICLK was set once; the first tick shifted, the second did not.
C15_Witness ==
    /\ last.op = "PeripheralPostTick"
    /\ prev.op = "PeripheralPostTick"
    /\ nops = 3
    /\ USICS = 0
    /\ USICLK = 0
    /\ output_counter = 1

(***************************************************************************)
(* C16.  PC is always in range: every write of the program counter through *)
(* SetPC stores the value masked by PROG_MEM_SIZE - 1, so that, starting   *)
(* from PC = 0, PC < PROG_MEM_SIZE holds after every cycle and every fetch *)
(* reads FLASH at an index below PROG_MEM_SIZE.                            *)
(***************************************************************************)
\* main has set PC to 0 and has not returned 1.
Started == pcl \in {"while", "pre_tick", "fetch", "execute", "post_tick", "halted"} \/ Returned

C16_PCInRange ==
    /\ Started => PC \in 0..(PROG_MEM_SIZE - 1)
    /\ pcl = "fetch" => (PC < PROG_MEM_SIZE /\ fetch_instruction(Mach) = FLASH[PC])
    /\ pcl = "while" =>
          \A a \in PCValues :
              /\ GetPC(SetPC(Mach, a)) \in 0..(PROG_MEM_SIZE - 1)
              /\ (GetPC(SetPC(Mach, a)) - a) % PROG_MEM_SIZE = 0

\* rjmp .-4 at word 0 has taken PC backwards past 0, to the last word.
C16_Witness ==
    /\ pcl = "while"
    /\ cycles = 1
    /\ cycle_pc = 0
    /\ opcode = 53246
    /\ PC = PROG_MEM_SIZE - 1

(***************************************************************************)
(* C17.  Cycle structure: each machine_cycle performs, in this order, the  *)
(* peripheral pre-tick, one fetch of the word at the current PC, one       *)
(* decode-and-execute of that word, and one peripheral post-tick; over any *)
(* run the number of post-ticks equals the number of cycles and a          *)
(* post-tick never precedes the execute of its cycle.  (cycles and         *)
(* post_ticks stop counting at MaxCycles.)                                 *)
(***************************************************************************)
C17_Counts ==
    /\ post_ticks <= cycles
    /\ ~InCycle => post_ticks = cycles
    /\ (InCycle /\ cycles < MaxCycles) => post_ticks = cycles - 1

C17_Step ==
    /\ pcl' = "pre_tick" => (pcl = "while" /\ cycle_pc' = PC)
    /\ pcl = "pre_tick" => (pcl' = "fetch" /\ UNCHANGED <<machVars, post_ticks>>)
    /\ pcl = "fetch" =>
          /\ pcl' = "execute"
          /\ PC = cycle_pc
          /\ opcode' = FLASH[PC]
          /\ UNCHANGED <<machVars, post_ticks>>
    /\ pcl = "execute" =>
          /\ pcl' = "post_tick"
          /\ SetMach(decode_and_execute_instruction(Mach, FLASH[cycle_pc]))
          /\ UNCHANGED post_ticks
    /\ pcl = "post_tick" => (pcl' = "while" /\ UNCHANGED <<PC, opcode>>)
    /\ post_ticks' # post_ticks => pcl = "post_tick"
    /\ (pcl = "post_tick" /\ post_ticks < MaxCycles) => post_ticks' = post_ticks + 1

C17_CycleStructure ==
    /\ []C17_Counts
    /\ [][C17_Step]_vars

\* Two cycles done, of nop and of rjmp .-4, and two post-ticks.
C17_Witness ==
    /\ pcl = "while"
    /\ cycles = 2
    /\ post_ticks = 2
    /\ opcode = 53246
    /\ cycle_pc = 1
    /\ PC = 0

(***************************************************************************)
(* C18.  Load failure stops the simulator before it starts: when the image *)
(* file cannot be opened (or the argument count is not exactly one), the   *)
(* program exits with code 1 without executing any machine cycle and       *)
(* without writing program memory; when the file opens and the run halts,  *)
(* the exit code is 0.                                                     *)
(***************************************************************************)
\* argc counts the program's name too: one argument is argc = 2.
BadArgs == last.op = "main" /\ last.a # 2
OpenFailed == last.op = "load_memory_from_file" /\ last.ret = 0
Opened == last.op = "load_memory_from_file" /\ last.ret = 1

C18_Exit ==
    /\ (BadArgs \/ OpenFailed) =>
          (pcl = "exit" /\ exit_code = 1 /\ cycles = 0 /\ post_ticks = 0 /\ read_bytes = -1)
    /\ exit_code = 1 => (BadArgs \/ OpenFailed)
    /\ (Opened /\ pcl = "exit") => exit_code = 0
    /\ exit_code = 0 => (Opened /\ pcl = "exit" /\ cycles >= 1)

C18_LoadFailure ==
    /\ []C18_Exit
    /\ [][read_bytes' = -1 => FLASH' = FLASH]_vars
    /\ pcl = "halted" ~> exit_code = 0

C18_Witness ==
    /\ OpenFailed
    /\ prev.op = "main"
    /\ prev.a = 2
    /\ pcl = "exit"
    /\ exit_code = 1
    /\ cycles = 0

(***************************************************************************)
(* C20.  Hook routing: each of the four data-memory dispatchers calls the  *)
(* peripheral handler of the same kind: PreGetDataMem calls                *)
(* USI_PreGetDataMem, PostGetDataMem calls USI_PostGetDataMem,             *)
(* PreSetDataMem calls USI_PreSetDataMem and PostSetDataMem calls          *)
(* USI_PostSetDataMem, each with the accessed byte address and for every   *)
(* address.                                                                *)
(***************************************************************************)
Dispatchers == {"PreGetDataMem", "PostGetDataMem", "PreSetDataMem", "PostSetDataMem"}

HandlerOf(d) ==
    CASE d = "PreGetDataMem" -> "USI_PreGetDataMem"
      [] d = "PostGetDataMem" -> "USI_PostGetDataMem"
      [] d = "PreSetDataMem" -> "USI_PreSetDataMem"
      [] d = "PostSetDataMem" -> "USI_PostSetDataMem"

C20_HookRouting ==
    \A k \in 1..Len(trace) :
        trace[k].call \in Dispatchers =>
            /\ k < Len(trace)
            /\ trace[k + 1].call = HandlerOf(trace[k].call)
            /\ trace[k + 1].addr = trace[k].addr

(***************************************************************************)
(* C21.  Stack addresses wrap modulo DATA_MEM_SIZE: for every              *)
(* stack-pointer value s, PushStack16 writes its high byte to the cell at  *)
(* data address (s - 1) mod DATA_MEM_SIZE and PopStack16 reads its high    *)
(* byte from (SP - 1) mod DATA_MEM_SIZE, SP being the stack pointer it has *)
(* incremented, also when s - 1 is below 0.                                *)
(***************************************************************************)
C21_StackAddressesWrap ==
    /\ last.op = "PushStack16" =>
          Cell((last.sp0 - 1) % DATA_MEM_SIZE) = (last.v \div 256) % 256
    /\ last.op = "PopStack16" =>
          last.ret \div 256 = Cell((GetSP(Mach) - 1) % DATA_MEM_SIZE)

(***************************************************************************)
(* C22.  USICR is modified by the USI post-tick only in the strobe         *)
(* variant: a post-tick changes USICR only when USICS[1:0] = 00 and        *)
(* USICLK = 1; under USICS[1:0] = 01 the post-tick shifts and leaves       *)
(* every bit of USICR, USICLK included, as it was.                         *)
(***************************************************************************)
C22_Step ==
    /\ (IsTick /\ IO'[REG_USICR] # IO[REG_USICR]) => (USICS = 0 /\ USICLK = 1)
    /\ (IsTick /\ USICS = 1) =>
          /\ ShiftDone
          /\ IO'[REG_USICR] = IO[REG_USICR]

C22_UsicrOnlyInStrobe == [][C22_Step]_vars

(***************************************************************************)
(* C23.  Stack is LIFO within SRAM: if SP = s lies in the SRAM region with *)
(* s - n + 1 >= 96, the end of the I/O region, then n PushStack8 calls     *)
(* with values v1..vn followed by n PopStack8 calls return vn..v1 in that  *)
(* order, SP ends equal to s, and no GPR, I/O register or status flag is   *)
(* changed (SPL and SPH hold the moving stack pointer in between).         *)
(***************************************************************************)
\* The last 2n calls are n pushes followed by n pops.
PushesThenPops(n) ==
    /\ Len(calls) >= 2 * n
    /\ \A i \in 1..n : calls[Len(calls) - 2 * n + i].call.op = "PushStack8"
    /\ \A i \in 1..n : calls[Len(calls) - n + i].call.op = "PopStack8"

\* The I/O registers other than SPL and SPH.
OffSP(io) == [i \in (0..(IO_REGISTERS - 1)) \ {SP_L, SP_H} |-> io[i]]

C23_StackIsLifo ==
    \A n \in 1..(MaxLifoOps \div 2) :
        PushesThenPops(n) =>
            LET k == Len(calls)
                first == calls[k - 2 * n + 1]
                s == first.call.sp0
            IN  (s <= DATA_MEM_SIZE - 1 /\ s - n + 1 >= SRAM_START_ADDRESS) =>
                    /\ \A i \in 1..n : calls[k - n + i].call.ret = calls[k - n + 1 - i].call.v
                    /\ GetSP(Mach) = s
                    /\ R = first.R /\ IO = first.IO /\ SREG = first.SREG
                    /\ \A j \in (k - 2 * n + 1)..k :
                          /\ calls[j].R = first.R
                          /\ calls[j].SREG = first.SREG
                          /\ OffSP(calls[j].IO) = OffSP(first.IO)

\* Three bytes pushed from SP = 98 and popped again.
C23_Witness ==
    /\ Len(calls) = 7
    /\ PushesThenPops(3)
    /\ calls[1].call.op = "SetSP" /\ calls[1].call.a = 98
    /\ <<calls[2].call.v, calls[3].call.v, calls[4].call.v>> = <<165, 255, 0>>
    /\ <<calls[5].call.ret, calls[6].call.ret, calls[7].call.ret>> = <<0, 255, 165>>
    /\ GetSP(Mach) = 98

(***************************************************************************)
(* C24.  Loader frame: load_memory(bytes, n) writes exactly the program    *)
(* words with index below floor(n/2) and leaves every other program word, *)
(* PC, SKIP, the registers, the flags and data memory unchanged; when n is *)
(* odd the last byte of the image is not stored anywhere: the word of      *)
(* index floor(n/2) stays as it was.                                       *)
(***************************************************************************)
\* load_memory_from_file has read the image and called load_memory.
IsLoad == pcl = "load" /\ pcl' = "loaded"

C24_Step ==
    IsLoad =>
        /\ \A i \in 0..(PROG_MEM_SIZE - 1) :
              FLASH'[i] = IF i < read_bytes' \div 2
                          THEN Get16(image_bytes'[(2 * i + 1) + 1], image_bytes'[(2 * i) + 1])
                          ELSE FLASH[i]
        /\ read_bytes' % 2 = 1 => FLASH'[read_bytes' \div 2] = FLASH[read_bytes' \div 2]
        /\ PC' = PC /\ SKIP' = SKIP
        /\ R' = R /\ IO' = IO /\ SRAM' = SRAM
        /\ SREG' = SREG

C24_LoaderFrame == [][C24_Step]_vars

\* An image of three bytes loaded over 0xff garbage: word 0 written, word 1
\* and PC as they were.
C24_Witness ==
    /\ pcl = "loaded"
    /\ image_bytes = <<255, 207, 18>>
    /\ read_bytes = 3
    /\ FLASH[0] = 53247
    /\ FLASH[1] = 65535
    /\ PC = 65535
    /\ R[0] = 255

(***************************************************************************)
(* C10.  Loader zero fill: after load_memory_from_file has loaded an image *)
(* of n < PROG_MEM_SIZE_BYTES bytes, every program word FLASH[i] with      *)
(* i >= n / 2 is zero.                                                     *)
(***************************************************************************)
C10_LoaderZeroFill ==
    (read_bytes >= 0 /\ read_bytes < PROG_MEM_SIZE_BYTES)
        => \A i \in 0..(PROG_MEM_SIZE - 1) : i >= read_bytes \div 2 => FLASH[i] = 0

====
